---- MODULE Spec2Model ----
(***************************************************************************)
(* A model of bevy_easy_stats: the heterogeneous stat store `Stats`        *)
(* (src/src/lib.rs), the numeric catalog of `StatData` implementations     *)
(* (src/src/implementations.rs), the five modification verbs               *)
(* (src/src/stat_modification.rs) and the two deferred front-ends: entity  *)
(* commands (src/src/commands.rs), which the host runs at its next flush,  *)
(* and ModifyStat events (src/src/events.rs), which the handler applies to *)
(* the registered resource in PostUpdate.                                  *)
(*                                                                         *)
(* A StatData value is a record [kind, val]: `kind` is the runtime type    *)
(* that downcast_ref compares, `val` the number it holds.  Integer kinds   *)
(* keep their width.  f32 values are whole numbers of small magnitude, on  *)
(* which IEEE-754 addition and subtraction are exact; Duration values are  *)
(* whole seconds.  A Box<dyn StatData> that is itself used as a StatData   *)
(* value is the record [kind |-> "Box", inner |-> v].  The user-defined    *)
(* kind of the tests, CropsGrownStat, holds a map from crop names to       *)
(* amounts.                                                                *)
(***************************************************************************)
EXTENDS Integers, FiniteSets, Sequences, TLC

VARIABLES
    stats,            \* Stats.stats: HashMap<String, Box<dyn StatData>>
    overflow_checks,  \* build profile: are integer overflow checks compiled in
    panicked,         \* the thread has panicked inside the last call
    call,             \* the most recent call on the store and its arguments
    ret,              \* what that call returned
    prev,             \* Stats.stats as it was when that call began
    log,              \* the calls made since Stats::new(), oldest first
    world,            \* the host World: each entity and its component's Stats
    queue,            \* the host's command queue of deferred stat commands
    phase,            \* where the host is with World::flush
    batch,            \* the queue as it was when the last flush began
    batch_world,      \* the World as it was when the last flush began
    resource,         \* the Stats of the registered resource R
    events,           \* the ModifyStat<R> events the handler has not read
    stage,            \* the part of the update that is running
    drained,          \* the events the handler took to read in this update
    drain_pre,        \* the Stats of R when the handler began in this update
    app,              \* the App: is R inserted, the handler systems it holds
    channel2,         \* a second registered resource R2 and its event channel
    builder           \* target_entity of the ModifyStatEntityCommands builder

\* the state of the entity command front-end
commands == <<world, queue, phase, batch, batch_world>>

\* the state of the event front-end
channel == <<resource, events, stage, drained, drain_pre>>

\* the state of the front-ends
front == <<commands, channel, app, channel2, builder>>

\* the state of the host that only a build or a second resource changes
host == <<app, channel2, builder>>

\* the state of the store that is called directly
direct == <<stats, call, ret, prev, log>>

vars == <<stats, overflow_checks, panicked, call, ret, prev, log, front>>

---------------------------------------------------------------------------
(* Bounds of the model *)

\* largest magnitude of an f32 value the model lets a slot hold
FloatCap == 1
\* largest Duration, in seconds, the model lets a slot hold
DurCap == 2
\* longest sequence of calls that SpecLog records
MaxLog == 3
\* most commands the host's queue holds between two flushes
MaxQueue == 2
\* most events that wait unread in the channel
MaxEvents == 2

---------------------------------------------------------------------------
(* The value kernel *)

UnsignedKinds == {"u8"}
SignedKinds == {"i8"}
IntKinds == UnsignedKinds \cup SignedKinds
Kinds == IntKinds \cup {"f32", "Duration"}

\* bit width of an integer kind
Bits(kind) == IF kind \in {"u8", "i8"} THEN 8 ELSE 16

\* K::MIN and K::MAX of an integer kind
KindMin(kind) == IF kind \in UnsignedKinds THEN 0 ELSE -(2 ^ (Bits(kind) - 1))

KindMax(kind) ==
    IF kind \in UnsignedKinds THEN 2 ^ Bits(kind) - 1 ELSE 2 ^ (Bits(kind) - 1) - 1

\* StatData::new(stat): a boxed value of the given kind
StatData_new(kind, val) == [kind |-> kind, val |-> val]

\* the numbers the callers of the model pass, by kind
Values(kind) ==
    CASE kind = "u8" -> {0, 128, 255}
      [] kind = "i8" -> {-128, -64, 0, 64}
      [] kind = "f32" -> {0, 1}
      [] kind = "Duration" -> {0, 1, 2}

\* the boxed values the callers of the model pass to add, sub and set
Data == UNION {{StatData_new(k, v) : v \in Values(k)} : k \in Kinds}

\* a value the bounds of the model let a slot hold
Representable(v) ==
    CASE v.kind = "f32" -> v.val >= -FloatCap /\ v.val <= FloatCap
      [] v.kind = "Duration" -> v.val <= DurCap
      [] OTHER -> TRUE

\* two's complement wrap of n into the range of an integer kind
Wrap(kind, n) ==
    LET m == 2 ^ Bits(kind)
        r == n % m
    IN  IF r > KindMax(kind) THEN r - m ELSE r

\* the outcome of an arithmetic step: the value left in the slot, and
\* whether the step panicked before writing it
Done(v) == [val |-> v, panic |-> FALSE]

Panic(v) == [val |-> v, panic |-> TRUE]

\* an add that wraps at the width of the kind instead
saturating_add_wrapping(kind, a, b) == (a + b) % (2 ^ Bits(kind))

\* uN::saturating_add / uN::saturating_sub
saturating_add(kind, a, b) == IF a + b > KindMax(kind) THEN KindMax(kind) ELSE a + b

saturating_sub(kind, a, b) == IF a - b < KindMin(kind) THEN KindMin(kind) ELSE a - b

\* `*self += other` / `*self -= other` on a primitive signed integer: the
\* result when it fits; on overflow a panic in a build with overflow checks
\* and the wrapped result in a build without
checked_or_wrapping(self, n) ==
    IF n >= KindMin(self.kind) /\ n <= KindMax(self.kind)
    THEN Done(StatData_new(self.kind, n))
    ELSE IF overflow_checks
         THEN Panic(self)
         ELSE Done(StatData_new(self.kind, Wrap(self.kind, n)))

\* a downcast that hands out the inner value without comparing the kind
downcast_ref_unchecked(stat, T) == [some |-> TRUE, val |-> stat.val]

\* other.downcast_ref::<T>(): the inner value iff the runtime kind is T
downcast_ref(stat, T) == IF stat.kind = T THEN [some |-> TRUE, val |-> stat.val]
                         ELSE [some |-> FALSE]

None == [some |-> FALSE]

Some(v) == [some |-> TRUE, val |-> v]

\* unsigned add that skips the downcast of `other`
unsigned_add_any_kind(self, other) ==
    Done(StatData_new(self.kind, saturating_add(self.kind, self.val, other.val)))

\* impl StatData for u128/u64/u32/u16/u8
unsigned_add(self, other) ==
    LET o == downcast_ref(other, self.kind)
    IN  IF o.some
        THEN Done(StatData_new(self.kind, saturating_add(self.kind, self.val, o.val)))
        ELSE Done(self)

\* unsigned sub that leaves the receiver as it is
unsigned_sub_forgets(self, other) == Done(self)

unsigned_sub(self, other) ==
    LET o == downcast_ref(other, self.kind)
    IN  IF o.some
        THEN Done(StatData_new(self.kind, saturating_sub(self.kind, self.val, o.val)))
        ELSE Done(self)

\* signed add that assigns the operand instead of adding it
signed_add_assigns(self, other) ==
    LET o == downcast_ref(other, self.kind)
    IN  IF o.some THEN Done(StatData_new(self.kind, o.val)) ELSE Done(self)

\* impl StatData for i128/i64/i32/i16/i8
signed_add(self, other) ==
    LET o == downcast_ref(other, self.kind)
    IN  IF o.some THEN checked_or_wrapping(self, self.val + o.val) ELSE Done(self)

signed_sub(self, other) ==
    LET o == downcast_ref(other, self.kind)
    IN  IF o.some THEN checked_or_wrapping(self, self.val - o.val) ELSE Done(self)

\* impl StatData for f64/f32
float_add(self, other) ==
    LET o == downcast_ref(other, self.kind)
    IN  IF o.some THEN Done(StatData_new(self.kind, self.val + o.val)) ELSE Done(self)

float_sub(self, other) ==
    LET o == downcast_ref(other, self.kind)
    IN  IF o.some THEN Done(StatData_new(self.kind, self.val - o.val)) ELSE Done(self)

\* impl StatData for Duration: `*self += *other` and `*self -= *other`;
\* Duration's SubAssign panics ("overflow when subtracting durations") when
\* other > self, in every build
Duration_add(self, other) ==
    LET o == downcast_ref(other, "Duration")
    IN  IF o.some THEN Done(StatData_new("Duration", self.val + o.val)) ELSE Done(self)

Duration_sub(self, other) ==
    LET o == downcast_ref(other, "Duration")
    IN  IF o.some
        THEN IF o.val > self.val
             THEN Panic(self)
             ELSE Done(StatData_new("Duration", self.val - o.val))
        ELSE Done(self)

\* the amounts of a CropsGrownStat are u64 in the source; they are kept at
\* 16 bits here
AmountBits == 16

AmountMax == 2 ^ AmountBits - 1

\* HashMap::default(): the map without a key
HashMap_default == [name \in {} |-> 0]

\* CropsGrownStat::new(contents): the pairs inserted in order into an empty
\* map, a later pair replacing an earlier one of the same name
RECURSIVE CropsGrownStat_map(_)
CropsGrownStat_map(contents) ==
    IF contents = <<>> THEN HashMap_default
    ELSE LET last == contents[Len(contents)]
         IN  (last[1] :> last[2])
                 @@ CropsGrownStat_map(SubSeq(contents, 1, Len(contents) - 1))

CropsGrownStat_new(contents) ==
    StatData_new("CropsGrownStat", CropsGrownStat_map(contents))

\* self.map.entry(id).or_default(): the amount under the name, 0 when new
or_default(map, name) == IF name \in DOMAIN map THEN map[name] ELSE 0

\* the map after `*entry += amount` (sign 1) or `*entry -= amount` (sign -1)
\* for every entry of other: a result outside u64 wraps in a build without
\* overflow checks
Merged(map, other, sign) ==
    [name \in DOMAIN map \cup DOMAIN other |->
        IF name \in DOMAIN other
        THEN (or_default(map, name) + sign * other[name]) % (2 ^ AmountBits)
        ELSE map[name]]

\* does the assignment leave u64 for some entry of other
Overflows(map, other, sign) ==
    \E name \in DOMAIN other :
        LET n == or_default(map, name) + sign * other[name]
        IN  n < 0 \/ n > AmountMax

\* a CropsGrownStat add that assigns the amount of other to the entry
CropsGrownStat_add_assigns(self, other) ==
    LET o == downcast_ref(other, "CropsGrownStat")
    IN  IF o.some
        THEN Done(StatData_new("CropsGrownStat", o.val @@ self.val))
        ELSE Done(self)

\* impl StatData for CropsGrownStat: add and sub loop over the entries of
\* other; with overflow checks the loop panics at the entry that overflows
\* (the callers of the model pass such an amount alone in its map, so no
\* other entry was visited before it)
CropsGrownStat_add(self, other) ==
    LET o == downcast_ref(other, "CropsGrownStat")
    IN  IF o.some
        THEN IF overflow_checks
                  /\ Overflows(self.val, o.val, 1)
             THEN Panic(self)
             ELSE Done(StatData_new("CropsGrownStat",
                           Merged(self.val, o.val, 1)))
        ELSE Done(self)

CropsGrownStat_sub(self, other) ==
    LET o == downcast_ref(other, "CropsGrownStat")
    IN  IF o.some
        THEN IF overflow_checks
                  /\ Overflows(self.val, o.val, -1)
             THEN Panic(self)
             ELSE Done(StatData_new("CropsGrownStat",
                           Merged(self.val, o.val, -1)))
        ELSE Done(self)

\* a default that builds a u8 zero whatever the receiver is
StatData_default_u8(self) == StatData_new("u8", 0)

\* a Box<dyn StatData> coerced to Box<dyn StatData> once more: the runtime
\* kind of the outer value is the box, not what it holds
Box_new(inner) == [kind |-> "Box", inner |-> inner]

RECURSIVE StatData_default(_)
\* StatData::default(&self): a new instance of the same kind of stat data;
\* the Box impl forwards to the value it holds
StatData_default(self) ==
    CASE self.kind = "Box" -> StatData_default(self.inner)
      [] self.kind = "CropsGrownStat" ->
            StatData_new("CropsGrownStat", HashMap_default)
      [] OTHER -> StatData_new(self.kind, 0)

\* the outcome of a Box forwarding to the value it holds
Forwarded(r) == [val |-> Box_new(r.val), panic |-> r.panic]

RECURSIVE StatData_add(_, _)
\* StatData::add(&mut self, other), dispatched on the receiver's kind
StatData_add(self, other) ==
    CASE self.kind \in UnsignedKinds -> unsigned_add(self, other)
      [] self.kind \in SignedKinds -> signed_add(self, other)
      [] self.kind = "f32" -> float_add(self, other)
      [] self.kind = "Duration" -> Duration_add(self, other)
      [] self.kind = "CropsGrownStat" -> CropsGrownStat_add(self, other)
      [] self.kind = "Box" -> Forwarded(StatData_add(self.inner, other))

RECURSIVE StatData_sub(_, _)
\* StatData::sub(&mut self, other), dispatched on the receiver's kind
StatData_sub(self, other) ==
    CASE self.kind \in UnsignedKinds -> unsigned_sub(self, other)
      [] self.kind \in SignedKinds -> signed_sub(self, other)
      [] self.kind = "f32" -> float_sub(self, other)
      [] self.kind = "Duration" -> Duration_sub(self, other)
      [] self.kind = "CropsGrownStat" -> CropsGrownStat_sub(self, other)
      [] self.kind = "Box" -> Forwarded(StatData_sub(self.inner, other))

---------------------------------------------------------------------------
(* Identifiers *)

\* the StatIdentifier objects of the tests
StatIds == {"EnemiesKilled", "PlayTime"}

\* StatIdentifier::identifier(&self)
identifier(stat_id) == IF stat_id = "EnemiesKilled" THEN "Enemies Killed" ELSE "Playtime"

---------------------------------------------------------------------------
(* The stat store *)

\* HashMap::entry(key).or_insert(value): the map with the key bound
or_insert(map, key, value) == IF key \in DOMAIN map THEN map ELSE (key :> value) @@ map

\* an insert into a map that was cleared first
insert_cleared(map, key, value) == (key :> value)

\* HashMap::insert(key, value)
insert(map, key, value) == (key :> value) @@ map

\* HashMap::remove(key)
remove(map, key) == [k \in DOMAIN map \ {key} |-> map[k]]

\* the outcome of a primitive on a Stats: the map it leaves, and whether it
\* panicked on the way
Left(map) == [stats |-> map, panic |-> FALSE]

\* the body of Stats::add_to_stat_manual on the map `self`
Stats_add(self, stat_id, stat_data) ==
    LET entry == or_insert(self, stat_id, StatData_default(stat_data))
        r == StatData_add(entry[stat_id], stat_data)
    IN  [stats |-> [entry EXCEPT ![stat_id] = r.val], panic |-> r.panic]

\* the body of Stats::sub_from_stat_manual on the map `self`
Stats_sub(self, stat_id, stat_data) ==
    LET entry == or_insert(self, stat_id, StatData_default(stat_data))
        r == StatData_sub(entry[stat_id], stat_data)
    IN  [stats |-> [entry EXCEPT ![stat_id] = r.val], panic |-> r.panic]

\* the body of Stats::set_stat_manual on the map `self`
Stats_set(self, stat_id, stat_data) == Left(insert(self, stat_id, stat_data))

\* the body of Stats::remove_stat_manual on the map `self`
Stats_remove(self, stat_id) == Left(remove(self, stat_id))

\* a reset that drops a slot which already holds its zero
Stats_reset_drops_zero(self, stat_id) ==
    Left(IF stat_id \in DOMAIN self
         THEN IF self[stat_id] = StatData_default(self[stat_id])
              THEN remove(self, stat_id)
              ELSE [self EXCEPT ![stat_id] = StatData_default(self[stat_id])]
         ELSE self)

\* the body of Stats::reset_stat_manual on the map `self`
Stats_reset(self, stat_id) ==
    Left(IF stat_id \in DOMAIN self
         THEN [self EXCEPT ![stat_id] = StatData_default(self[stat_id])]
         ELSE self)

\* every slot of the map holds a value within the bounds of the model
AllRepresentable(map) == \A k \in DOMAIN map : Representable(map[k])

\* Stats::add_to_stat_manual
add_to_stat_manual(stat_id, stat_data) ==
    LET r == Stats_add(stats, stat_id, stat_data)
    IN  /\ Representable(r.stats[stat_id])
        /\ stats' = r.stats
        /\ panicked' = r.panic

\* Stats::sub_from_stat_manual
sub_from_stat_manual(stat_id, stat_data) ==
    LET r == Stats_sub(stats, stat_id, stat_data)
    IN  /\ Representable(r.stats[stat_id])
        /\ stats' = r.stats
        /\ panicked' = r.panic

\* a set that honours the kind of the slot as add and sub do
set_stat_manual_kind_locked(stat_id, stat_data) ==
    /\ stats' = IF stat_id \in DOMAIN stats /\ stats[stat_id].kind # stat_data.kind
                THEN stats
                ELSE insert(stats, stat_id, stat_data)
    /\ panicked' = FALSE

\* Stats::set_stat_manual
set_stat_manual(stat_id, stat_data) ==
    /\ stats' = Stats_set(stats, stat_id, stat_data).stats
    /\ panicked' = FALSE

\* a remove that zeroes the slot and keeps it
remove_stat_manual_keeps_slot(stat_id) ==
    /\ stats' = IF stat_id \in DOMAIN stats
                THEN [stats EXCEPT ![stat_id] = StatData_default(stats[stat_id])]
                ELSE stats
    /\ panicked' = FALSE

\* Stats::remove_stat_manual
remove_stat_manual(stat_id) ==
    /\ stats' = Stats_remove(stats, stat_id).stats
    /\ panicked' = FALSE

\* a reset that goes through entry().or_insert() as add and sub do
reset_stat_manual_or_insert(stat_id) ==
    /\ stats' = LET entry == or_insert(stats, stat_id, StatData_new("u8", 0))
                IN  [entry EXCEPT ![stat_id] = StatData_default(entry[stat_id])]
    /\ panicked' = FALSE

\* Stats::reset_stat_manual
reset_stat_manual(stat_id) ==
    /\ stats' = Stats_reset(stats, stat_id).stats
    /\ panicked' = FALSE

\* Stats::get_stat_downcast::<Stat>
get_stat_downcast(stat_id, Stat) ==
    IF identifier(stat_id) \in DOMAIN stats
    THEN downcast_ref(stats[identifier(stat_id)], Stat)
    ELSE None

\* the record of a call
Call(op, stat_id, arg) == [op |-> op, stat_id |-> stat_id, arg |-> arg]

NoArg == "-"

\* Stats::add_to_stat
add_to_stat(stat_id, stat_data) ==
    /\ ~panicked
    /\ add_to_stat_manual(identifier(stat_id), stat_data)
    /\ call' = Call("add", stat_id, stat_data)
    /\ ret' = None
    /\ prev' = stats
    /\ UNCHANGED <<overflow_checks, front>>

\* Stats::sub_from_stat
sub_from_stat(stat_id, stat_data) ==
    /\ ~panicked
    /\ sub_from_stat_manual(identifier(stat_id), stat_data)
    /\ call' = Call("sub", stat_id, stat_data)
    /\ ret' = None
    /\ prev' = stats
    /\ UNCHANGED <<overflow_checks, front>>

\* Stats::set_stat
set_stat(stat_id, stat_data) ==
    /\ ~panicked
    /\ set_stat_manual(identifier(stat_id), stat_data)
    /\ call' = Call("set", stat_id, stat_data)
    /\ ret' = None
    /\ prev' = stats
    /\ UNCHANGED <<overflow_checks, front>>

\* Stats::remove_stat
remove_stat(stat_id) ==
    /\ ~panicked
    /\ remove_stat_manual(identifier(stat_id))
    /\ call' = Call("remove", stat_id, NoArg)
    /\ ret' = None
    /\ prev' = stats
    /\ UNCHANGED <<overflow_checks, front>>

\* Stats::reset_stat
reset_stat(stat_id) ==
    /\ ~panicked
    /\ reset_stat_manual(identifier(stat_id))
    /\ call' = Call("reset", stat_id, NoArg)
    /\ ret' = None
    /\ prev' = stats
    /\ UNCHANGED <<overflow_checks, front>>

\* a caller reading a stat back with Stats::get_stat_downcast::<Stat>
GetStatDowncast(stat_id, Stat) ==
    /\ ~panicked
    /\ ret' = get_stat_downcast(stat_id, Stat)
    /\ call' = Call("get", stat_id, Stat)
    /\ prev' = stats
    /\ UNCHANGED <<stats, overflow_checks, panicked, front>>

\* Stats::new()
Stats_new == [k \in {} |-> NoArg]

\* the entities of the host World
Entities == {"e1", "e2"}

\* an entity spawned with a component that holds the given Stats, an entity
\* without the component, and a despawned entity
WithStats(map) == [state |-> "stats", stats |-> map]

Bare == [state |-> "bare", stats |-> Stats_new]

Gone == [state |-> "gone", stats |-> Stats_new]

\* world.spawn(EntityStats { stats: Stats::new() }) for every entity
InitCommands ==
    /\ world = [e \in Entities |-> WithStats(Stats_new)]
    /\ queue = <<>>
    /\ phase = "idle"
    /\ batch = <<>>
    /\ batch_world = world

\* App::new() with R registered: R is default, no event is sent and the
\* first update is about to run
InitEvents ==
    /\ resource = Stats_new
    /\ events = <<>>
    /\ stage = "PreUpdate"
    /\ drained = <<>>
    /\ drain_pre = Stats_new

\* R was registered once, R2 was registered once and has no event, and no
\* builder was made
InitHost ==
    /\ app = [resource |-> TRUE, handlers |-> 1,
              last |-> "register_stat_resource", had |-> FALSE,
              kept |-> Stats_new]
    /\ channel2 = [resource |-> Stats_new, events |-> <<>>,
                   drained |-> <<>>, drain_pre |-> Stats_new]
    /\ builder = NoArg

\* Stats::new(), in either build profile
Init ==
    /\ stats = Stats_new
    /\ overflow_checks \in BOOLEAN
    /\ panicked = FALSE
    /\ call = Call("new", NoArg, NoArg)
    /\ ret = None
    /\ prev = Stats_new
    /\ log = <<>>
    /\ InitCommands
    /\ InitEvents
    /\ InitHost

Next ==
    \/ \E stat_id \in StatIds, stat_data \in Data :
          add_to_stat(stat_id, stat_data) /\ UNCHANGED log
    \/ \E stat_id \in StatIds, stat_data \in Data :
          sub_from_stat(stat_id, stat_data) /\ UNCHANGED log
    \/ \E stat_id \in StatIds, stat_data \in Data :
          set_stat(stat_id, stat_data) /\ UNCHANGED log
    \/ \E stat_id \in StatIds : remove_stat(stat_id) /\ UNCHANGED log
    \/ \E stat_id \in StatIds : reset_stat(stat_id) /\ UNCHANGED log
    \/ \E stat_id \in StatIds, Stat \in Kinds :
          GetStatDowncast(stat_id, Stat) /\ UNCHANGED log

Spec == Init /\ [][Next]_vars

---------------------------------------------------------------------------
(* The same store driven on one key, with the sequence of calls recorded *)

\* the identifier and the values the recorded callers pass
LogIds == {"EnemiesKilled"}

LogData == {d \in Data : d.val \in {-128, 1, 64, 128}}

\* the call just made is appended to the record
Record ==
    /\ Len(log) < MaxLog
    /\ log' = Append(log, call')

NextLog ==
    \/ \E stat_id \in LogIds, stat_data \in LogData :
          add_to_stat(stat_id, stat_data) /\ Record
    \/ \E stat_id \in LogIds, stat_data \in LogData :
          sub_from_stat(stat_id, stat_data) /\ Record
    \/ \E stat_id \in LogIds, stat_data \in LogData :
          set_stat(stat_id, stat_data) /\ Record
    \/ \E stat_id \in LogIds : remove_stat(stat_id) /\ Record
    \/ \E stat_id \in LogIds : reset_stat(stat_id) /\ Record

SpecLog == Init /\ [][NextLog]_vars

---------------------------------------------------------------------------
(* The modification verb *)

\* a value handed to a parameter `impl StatData`: a primitive of the
\* catalog, or a Box<dyn StatData> that was boxed before
Primitive(kind, val) == [boxed |-> FALSE, value |-> StatData_new(kind, val)]

Boxed(stat) == [boxed |-> TRUE, value |-> stat]

\* Box::new(stat_data) coerced to Box<dyn StatData>: the box of a primitive
\* has the primitive's kind, the box of a box has the kind of a box
Box_dyn(stat_data) ==
    IF stat_data.boxed THEN Box_new(stat_data.value) ELSE stat_data.value

\* ModificationType::add / sub / set / remove / reset
ModificationType_add(stat_data) == [verb |-> "Add", data |-> Box_dyn(stat_data)]

ModificationType_sub(stat_data) == [verb |-> "Sub", data |-> Box_dyn(stat_data)]

ModificationType_set(stat_data) == [verb |-> "Set", data |-> Box_dyn(stat_data)]

ModificationType_remove == [verb |-> "Remove", data |-> NoArg]

ModificationType_reset == [verb |-> "Reset", data |-> NoArg]

---------------------------------------------------------------------------
(* The entity command front-end *)

\* the identifiers and the values the producers of the model pass
FrontIds == {"EnemiesKilled"}

AddInputs == {Primitive("u8", 128)}

SubInputs == {Primitive("Duration", 1)}

SetInputs == {Primitive("Duration", 1)}

\* the verbs the producers of the model build
Mods ==
    {ModificationType_add(d) : d \in AddInputs}
        \cup {ModificationType_sub(d) : d \in SubInputs}
        \cup {ModificationType_set(d) : d \in SetInputs}
        \cup {ModificationType_remove, ModificationType_reset}

\* the body of the closure that modify_entity_stat returns, on the Stats of
\* the component: the match on the verb
match_modification_type(stats_, stat_id, modification_type) ==
    CASE modification_type.verb = "Add" ->
            Stats_add(stats_, identifier(stat_id), modification_type.data)
      [] modification_type.verb = "Sub" ->
            Stats_sub(stats_, identifier(stat_id), modification_type.data)
      [] modification_type.verb = "Remove" ->
            Stats_remove(stats_, identifier(stat_id))
      [] modification_type.verb = "Set" ->
            Stats_set(stats_, identifier(stat_id), modification_type.data)
      [] modification_type.verb = "Reset" ->
            Stats_reset(stats_, identifier(stat_id))

\* a closure that unwraps the entity and the component instead
modify_entity_stat_unwrap(world_, entity, stat_id, modification_type) ==
    IF world_[entity].state = "stats"
    THEN LET r == match_modification_type(world_[entity].stats, stat_id,
                                          modification_type)
         IN  [world |-> [world_ EXCEPT ![entity].stats = r.stats],
              panic |-> r.panic]
    ELSE [world |-> world_, panic |-> TRUE]

\* the closure that modify_entity_stat returns, run on an entity and the
\* World: nothing when the entity is gone or has no component
modify_entity_stat(world_, entity, stat_id, modification_type) ==
    IF world_[entity].state # "gone"
    THEN IF world_[entity].state = "stats"
         THEN LET r == match_modification_type(world_[entity].stats, stat_id,
                                               modification_type)
              IN  [world |-> [world_ EXCEPT ![entity].stats = r.stats],
                   panic |-> r.panic]
         ELSE [world |-> world_, panic |-> FALSE]
    ELSE [world |-> world_, panic |-> FALSE]

\* a queued command: the closure with the entity it was queued on
Command(entity, stat_id, modification_type) ==
    [entity |-> entity, stat_id |-> stat_id, mod |-> modification_type]

\* the producers run between flushes; what the last flush recorded is
\* dropped when the World or the queue moves on
Settle ==
    /\ phase' = "idle"
    /\ batch' = <<>>
    /\ batch_world' = [e \in Entities |-> Gone]

\* a queue that runs the closure at once instead of deferring it
entity_commands_queue_eager(entity, stat_id, modification_type) ==
    /\ ~panicked
    /\ phase # "flushing"
    /\ world[entity].state # "gone"
    /\ Len(queue) < MaxQueue
    /\ LET r == modify_entity_stat(world, entity, stat_id, modification_type)
       IN  /\ \A e \in Entities : AllRepresentable(r.world[e].stats)
           /\ world' = r.world
           /\ panicked' = r.panic
    /\ queue' = Append(queue, Command(entity, stat_id, modification_type))
    /\ Settle
    /\ UNCHANGED <<overflow_checks, direct, channel, host>>

\* EntityCommands::queue on the entity commands of a live entity
entity_commands_queue(entity, stat_id, modification_type) ==
    /\ ~panicked
    /\ phase # "flushing"
    /\ world[entity].state # "gone"
    /\ Len(queue) < MaxQueue
    /\ queue' = Append(queue, Command(entity, stat_id, modification_type))
    /\ Settle
    /\ UNCHANGED <<world, overflow_checks, panicked, direct, channel, host>>

\* ModifyStatEntityCommands::add on a builder that targets target_entity
ModifyStatEntityCommands_add(target_entity, stat_id, stat_data) ==
    entity_commands_queue(target_entity, stat_id, ModificationType_add(stat_data))

\* ModifyStatEntityCommands::sub
ModifyStatEntityCommands_sub(target_entity, stat_id, stat_data) ==
    entity_commands_queue(target_entity, stat_id, ModificationType_sub(stat_data))

\* ModifyStatEntityCommands::set
ModifyStatEntityCommands_set(target_entity, stat_id, stat_data) ==
    entity_commands_queue(target_entity, stat_id, ModificationType_set(stat_data))

\* ModifyStatEntityCommands::remove
ModifyStatEntityCommands_remove(target_entity, stat_id) ==
    entity_commands_queue(target_entity, stat_id, ModificationType_remove)

\* ModifyStatEntityCommands::reset
ModifyStatEntityCommands_reset(target_entity, stat_id) ==
    entity_commands_queue(target_entity, stat_id, ModificationType_reset)

\* StatCommandsExt::modify_stat and StatEntityCommandsExt::modify_stat
modify_stat(entity, stat_id, modification_type) ==
    entity_commands_queue(entity, stat_id, modification_type)

\* the host begins World::flush: with nothing queued it is over at once
flush ==
    /\ ~panicked
    /\ phase # "flushing"
    /\ phase' = IF queue = <<>> THEN "flushed" ELSE "flushing"
    /\ batch' = queue
    /\ batch_world' = world
    /\ UNCHANGED <<world, queue, overflow_checks, panicked, direct, channel, host>>

\* a flush that runs the command queued last
apply_command_lifo ==
    /\ ~panicked
    /\ phase = "flushing"
    /\ LET command == queue[Len(queue)]
           r == modify_entity_stat(world, command.entity, command.stat_id,
                                   command.mod)
       IN  /\ \A e \in Entities : AllRepresentable(r.world[e].stats)
           /\ world' = r.world
           /\ panicked' = r.panic
           /\ phase' = IF Len(queue) = 1 /\ ~r.panic
                       THEN "flushed" ELSE "flushing"
    /\ queue' = SubSeq(queue, 1, Len(queue) - 1)
    /\ UNCHANGED <<batch, batch_world, overflow_checks, direct, channel, host>>

\* the flush runs the command at the head of the queue; it is over after
\* the last command, unless that command panicked
apply_command ==
    /\ ~panicked
    /\ phase = "flushing"
    /\ LET command == Head(queue)
           r == modify_entity_stat(world, command.entity, command.stat_id,
                                   command.mod)
       IN  /\ \A e \in Entities : AllRepresentable(r.world[e].stats)
           /\ world' = r.world
           /\ panicked' = r.panic
           /\ phase' = IF Tail(queue) = <<>> /\ ~r.panic
                       THEN "flushed" ELSE "flushing"
    /\ queue' = Tail(queue)
    /\ UNCHANGED <<batch, batch_world, overflow_checks, direct, channel, host>>

\* the host despawns an entity between flushes
despawn(entity) ==
    /\ ~panicked
    /\ phase # "flushing"
    /\ world[entity].state # "gone"
    /\ world' = [world EXCEPT ![entity] = Gone]
    /\ Settle
    /\ UNCHANGED <<queue, overflow_checks, panicked, direct, channel, host>>

\* the host removes the component from an entity between flushes
remove_component(entity) ==
    /\ ~panicked
    /\ phase # "flushing"
    /\ world[entity].state = "stats"
    /\ world' = [world EXCEPT ![entity] = Bare]
    /\ Settle
    /\ UNCHANGED <<queue, overflow_checks, panicked, direct, channel, host>>

NextCommands ==
    \/ \E e \in Entities, stat_id \in FrontIds, d \in AddInputs :
          ModifyStatEntityCommands_add(e, stat_id, d)
    \/ \E e \in Entities, stat_id \in FrontIds, d \in SubInputs :
          ModifyStatEntityCommands_sub(e, stat_id, d)
    \/ \E e \in Entities, stat_id \in FrontIds, d \in SetInputs :
          ModifyStatEntityCommands_set(e, stat_id, d)
    \/ \E e \in Entities, stat_id \in FrontIds :
          ModifyStatEntityCommands_remove(e, stat_id)
    \/ \E e \in Entities, stat_id \in FrontIds :
          ModifyStatEntityCommands_reset(e, stat_id)
    \/ \E e \in Entities, stat_id \in FrontIds, m \in Mods :
          modify_stat(e, stat_id, m)
    \/ flush
    \/ apply_command
    \/ \E e \in Entities : despawn(e)
    \/ \E e \in Entities : remove_component(e)

SpecCommands == Init /\ [][NextCommands]_vars

---------------------------------------------------------------------------
(* One ModifyStatEntityCommands builder, made for an entity and retargeted *)

\* StatCommandsExt::entity_stats and StatEntityCommandsExt::entity_stats: a
\* builder with target_entity set to the entity, which is not looked up
entity_stats(entity) ==
    /\ ~panicked
    /\ phase # "flushing"
    /\ builder' = entity
    /\ call' = Call("entity_stats", NoArg, entity)
    /\ ret' = None
    /\ UNCHANGED <<stats, prev, log, overflow_checks, panicked, commands,
                   channel, app, channel2>>

\* an entity() that keeps the target the builder was made with
ModifyStatEntityCommands_entity_kept(entity) ==
    /\ ~panicked
    /\ phase # "flushing"
    /\ builder # NoArg
    /\ call' = Call("entity", NoArg, entity)
    /\ ret' = None
    /\ UNCHANGED <<stats, prev, log, overflow_checks, panicked, commands,
                   channel, host>>

\* ModifyStatEntityCommands::entity: self.target_entity = entity
ModifyStatEntityCommands_entity(entity) ==
    /\ ~panicked
    /\ phase # "flushing"
    /\ builder # NoArg
    /\ builder' = entity
    /\ call' = Call("entity", NoArg, entity)
    /\ ret' = None
    /\ UNCHANGED <<stats, prev, log, overflow_checks, panicked, commands,
                   channel, app, channel2>>

\* ModifyStatEntityCommands::id: self.target_entity
ModifyStatEntityCommands_id ==
    /\ ~panicked
    /\ phase # "flushing"
    /\ builder # NoArg
    /\ call' = Call("id", NoArg, NoArg)
    /\ ret' = Some(builder)
    /\ UNCHANGED <<stats, prev, log, overflow_checks, panicked, commands,
                   channel, host>>

\* one builder is made and used until the flush; its verbs go to
\* entity_commands(), the entity commands of its target_entity
NextBuilder ==
    \/ \E e \in Entities : builder = NoArg /\ entity_stats(e)
    \/ \E e \in Entities : phase = "idle" /\ ModifyStatEntityCommands_entity(e)
    \/ phase = "idle" /\ ModifyStatEntityCommands_id
    \/ /\ builder # NoArg /\ phase = "idle"
       /\ \E stat_id \in FrontIds, d \in AddInputs :
             ModifyStatEntityCommands_add(builder, stat_id, d)
    \/ /\ builder # NoArg /\ phase = "idle"
       /\ \E stat_id \in FrontIds, d \in SubInputs :
             ModifyStatEntityCommands_sub(builder, stat_id, d)
    \/ /\ builder # NoArg /\ phase = "idle"
       /\ \E stat_id \in FrontIds, d \in SetInputs :
             ModifyStatEntityCommands_set(builder, stat_id, d)
    \/ /\ builder # NoArg /\ phase = "idle"
       /\ \E stat_id \in FrontIds :
             ModifyStatEntityCommands_remove(builder, stat_id)
    \/ /\ builder # NoArg /\ phase = "idle"
       /\ \E stat_id \in FrontIds :
             ModifyStatEntityCommands_reset(builder, stat_id)
    \/ flush
    \/ apply_command

SpecBuilder == Init /\ [][NextBuilder]_vars

---------------------------------------------------------------------------
(* Commands that add a user-defined kind, CropsGrownStat, on one key *)

\* the contents the producers pass to CropsGrownStat::new
CropContents ==
    {<< <<"Potato", 5>> >>,
     << <<"Dandelion", 500>> >>,
     << <<"Dandelion", 500>>, <<"Potato", 5>> >>,
     << <<"Corn", 1>> >>,
     << <<"Corn", AmountMax>> >>}

\* commands.entity(entity).modify_stat::<EntityStats>(EnemiesKilled,
\* ModificationType::add(CropsGrownStat::new(contents))), with the call
\* recorded
modify_stat_CropsGrownStat(entity, contents) ==
    LET stat_data == [boxed |-> FALSE, value |-> CropsGrownStat_new(contents)]
    IN  /\ ~panicked
        /\ phase # "flushing"
        /\ world[entity].state # "gone"
        /\ Len(queue) < MaxQueue
        /\ Len(log) < MaxLog
        /\ queue' = Append(queue, Command(entity, "EnemiesKilled",
                                          ModificationType_add(stat_data)))
        /\ Settle
        /\ log' = Append(log, Call("add", "EnemiesKilled",
                                   CropsGrownStat_new(contents)))
        /\ UNCHANGED <<stats, call, ret, prev, world, overflow_checks,
                       panicked, channel, host>>

NextCrops ==
    \/ \E contents \in CropContents : modify_stat_CropsGrownStat("e1", contents)
    \/ flush
    \/ apply_command

SpecCrops == Init /\ [][NextCrops]_vars

---------------------------------------------------------------------------
(* The event front-end *)

\* ModifyStat::new: the event carries the identifier and the verb
ModifyStat_new(stat_id, modification_type) ==
    [stat_id |-> stat_id, modification_type |-> modification_type]

\* ModifyStat::add / sub / set / remove / reset
ModifyStat_add(stat_id, stat_data) ==
    ModifyStat_new(stat_id, ModificationType_add(stat_data))

ModifyStat_sub(stat_id, stat_data) ==
    ModifyStat_new(stat_id, ModificationType_sub(stat_data))

ModifyStat_set(stat_id, stat_data) ==
    ModifyStat_new(stat_id, ModificationType_set(stat_data))

ModifyStat_remove(stat_id) == ModifyStat_new(stat_id, ModificationType_remove)

ModifyStat_reset(stat_id) == ModifyStat_new(stat_id, ModificationType_reset)

\* the events the producers of the model build
ModifyStats ==
    {ModifyStat_new(stat_id, m) : stat_id \in FrontIds, m \in Mods}
        \cup {ModifyStat_add(stat_id, d) : stat_id \in FrontIds, d \in AddInputs}
        \cup {ModifyStat_sub(stat_id, d) : stat_id \in FrontIds, d \in SubInputs}
        \cup {ModifyStat_set(stat_id, d) : stat_id \in FrontIds, d \in SetInputs}
        \cup {ModifyStat_remove(stat_id) : stat_id \in FrontIds}
        \cup {ModifyStat_reset(stat_id) : stat_id \in FrontIds}

\* an event in the channel, with the part of the update it was sent in
Sent(event, stage_) == [event |-> event, sent |-> stage_]

\* a match whose arm for Set adds
match_event_set_adds(stats_, event) ==
    CASE event.modification_type.verb \in {"Add", "Set"} ->
            Stats_add(stats_, identifier(event.stat_id), event.modification_type.data)
      [] event.modification_type.verb = "Sub" ->
            Stats_sub(stats_, identifier(event.stat_id), event.modification_type.data)
      [] event.modification_type.verb = "Remove" ->
            Stats_remove(stats_, identifier(event.stat_id))
      [] event.modification_type.verb = "Reset" ->
            Stats_reset(stats_, identifier(event.stat_id))

\* the match of handle_stat_modifications on one event
match_event(stats_, event) ==
    CASE event.modification_type.verb = "Add" ->
            Stats_add(stats_, identifier(event.stat_id), event.modification_type.data)
      [] event.modification_type.verb = "Sub" ->
            Stats_sub(stats_, identifier(event.stat_id), event.modification_type.data)
      [] event.modification_type.verb = "Remove" ->
            Stats_remove(stats_, identifier(event.stat_id))
      [] event.modification_type.verb = "Set" ->
            Stats_set(stats_, identifier(event.stat_id), event.modification_type.data)
      [] event.modification_type.verb = "Reset" ->
            Stats_reset(stats_, identifier(event.stat_id))

\* a handler that reads the newest event first
RECURSIVE handle_stat_modifications_newest_first(_, _)
handle_stat_modifications_newest_first(stats_, unread) ==
    IF unread = <<>> THEN Left(stats_)
    ELSE LET r == match_event(stats_, unread[Len(unread)].event)
         IN  IF r.panic THEN r
             ELSE handle_stat_modifications_newest_first(
                      r.stats, SubSeq(unread, 1, Len(unread) - 1))

\* handle_stat_modifications: the loop over event_reader.read(), oldest
\* event first, that a panic of a verb leaves
RECURSIVE handle_stat_modifications(_, _)
handle_stat_modifications(stats_, unread) ==
    IF unread = <<>> THEN Left(stats_)
    ELSE LET r == match_event(stats_, Head(unread).event)
         IN  IF r.panic THEN r
             ELSE handle_stat_modifications(r.stats, Tail(unread))

\* every Stats the loop passes through holds values of the model
RECURSIVE Handled(_, _)
Handled(stats_, unread) ==
    IF unread = <<>> THEN TRUE
    ELSE LET r == match_event(stats_, Head(unread).event)
         IN  /\ AllRepresentable(r.stats)
             /\ (r.panic \/ Handled(r.stats, Tail(unread)))

\* a registration that adds the handler to the First schedule
handler_schedule_first == "First"

\* register_stat_resource adds the handler to the PostUpdate schedule
handler_schedule == "PostUpdate"

\* the run condition on_event of the handler, in the schedule it was added to
on_event(schedule) == handler_schedule = schedule /\ events # <<>>

\* the handler systems of R in a schedule, one for every add_systems of a
\* registration: each has its own EventReader and reads every unread event
RECURSIVE Systems(_, _, _)
Systems(n, stats_, unread) ==
    IF n = 0 THEN Left(stats_)
    ELSE LET r == handle_stat_modifications(stats_, unread)
         IN  IF r.panic THEN r ELSE Systems(n - 1, r.stats, unread)

\* every Stats the handler systems pass through holds values of the model
RECURSIVE SystemsHandled(_, _, _)
SystemsHandled(n, stats_, unread) ==
    IF n = 0 THEN TRUE
    ELSE LET r == handle_stat_modifications(stats_, unread)
         IN  /\ Handled(stats_, unread)
             /\ (r.panic \/ SystemsHandled(n - 1, r.stats, unread))

\* the system set ApplyModifications of a schedule: the handlers of R, when
\* they run
ApplyModifications(schedule) ==
    IF on_event(schedule)
    THEN Systems(app.handlers, resource, events)
    ELSE Left(resource)

\* a handler of R2 whose reader also reads the channel of R
ApplyModifications2_shared(schedule) ==
    IF handler_schedule = schedule /\ events \o channel2.events # <<>>
    THEN handle_stat_modifications(channel2.resource,
                                   events \o channel2.events)
    ELSE Left(channel2.resource)

\* the handler of R2 in the same set: handle_stat_modifications::<R2>, a
\* system of its own with the reader of ModifyStat<R2>
ApplyModifications2(schedule) ==
    IF handler_schedule = schedule /\ channel2.events # <<>>
    THEN handle_stat_modifications(channel2.resource, channel2.events)
    ELSE Left(channel2.resource)

\* the events still unread after the set ran: its reader has read them all
Unread(schedule) == IF on_event(schedule) THEN <<>> ELSE events

\* EventWriter::send by a system of the running part of the update
EventWriter_send(event) ==
    /\ ~panicked
    /\ Len(events) < MaxEvents
    /\ events' = Append(events, Sent(event, stage))
    /\ UNCHANGED <<resource, stage, drained, drain_pre>>
    /\ UNCHANGED <<overflow_checks, panicked, direct, commands, host>>

\* the update reaches ApplyModifications in PostUpdate; the systems ordered
\* after it run next, unless the handler panicked
PostUpdate ==
    /\ ~panicked
    /\ stage = "PreUpdate"
    /\ on_event("PostUpdate") => SystemsHandled(app.handlers, resource, events)
    /\ Handled(channel2.resource, channel2.events)
    /\ \E R_first \in BOOLEAN :
          \* the set does not order the handlers of R and of R2, and a panic
          \* of the one that runs first keeps the other from running
          LET r == ApplyModifications("PostUpdate")
              r2 == ApplyModifications2("PostUpdate")
              ran == R_first \/ ~r2.panic
              ran2 == ~R_first \/ ~r.panic
              panic == (ran /\ r.panic) \/ (ran2 /\ r2.panic)
          IN  /\ resource' = IF ran THEN r.stats ELSE resource
              /\ panicked' = panic
              /\ IF panic
                 THEN /\ drained' = IF ran THEN events ELSE drained
                      /\ channel2' =
                            IF ran2
                            THEN [channel2 EXCEPT !.resource = r2.stats,
                                                  !.drained = channel2.events]
                            ELSE channel2
                      /\ UNCHANGED <<events, stage, drain_pre>>
                 ELSE /\ events' = Unread("PostUpdate")
                      /\ stage' = "PostUpdate"
                      /\ drained' = IF on_event("PostUpdate") THEN events
                                                              ELSE <<>>
                      /\ drain_pre' = resource
                      /\ channel2' = [resource |-> r2.stats,
                                      events |-> <<>>,
                                      drained |-> channel2.events,
                                      drain_pre |-> channel2.resource]
    /\ UNCHANGED <<overflow_checks, direct, commands, app, builder>>

\* the update ends and the next one begins with the First schedule
First ==
    /\ ~panicked
    /\ stage = "PostUpdate"
    /\ on_event("First") => Handled(resource, events)
    /\ LET r == ApplyModifications("First")
       IN  /\ resource' = r.stats
           /\ panicked' = r.panic
           /\ events' = IF r.panic THEN events ELSE Unread("First")
    /\ stage' = "PreUpdate"
    /\ drained' = <<>>
    /\ drain_pre' = Stats_new
    /\ channel2' = [channel2 EXCEPT !.drained = <<>>, !.drain_pre = Stats_new]
    /\ UNCHANGED <<overflow_checks, direct, commands, app, builder>>

NextEvents ==
    \/ \E event \in ModifyStats : EventWriter_send(event)
    \/ PostUpdate
    \/ First

SpecEvents == Init /\ [][NextEvents]_vars

---------------------------------------------------------------------------
(* Building the App: R is inserted and registered before the updates run *)

\* the calls of register_stat_resource::<R> a build makes
MaxRegistrations == 2

\* the Stats a program inserts as R: Stats::new(), and one that holds a stat
InsertedStats ==
    {Stats_new, insert(Stats_new, identifier("EnemiesKilled"),
                       StatData_new("u8", 128))}

\* the events the systems of the built App send
AppEvents ==
    {ModifyStat_add(stat_id, d) : stat_id \in FrontIds, d \in AddInputs}
        \cup {ModifyStat_remove(stat_id) : stat_id \in FrontIds}

\* App::new(): R is neither inserted nor registered
InitBuild ==
    /\ stats = Stats_new
    /\ overflow_checks \in BOOLEAN
    /\ panicked = FALSE
    /\ call = Call("new", NoArg, NoArg)
    /\ ret = None
    /\ prev = Stats_new
    /\ log = <<>>
    /\ InitCommands
    /\ resource = Stats_new
    /\ events = <<>>
    /\ stage = "Build"
    /\ drained = <<>>
    /\ drain_pre = Stats_new
    /\ app = [resource |-> FALSE, handlers |-> 0, last |-> "new",
              had |-> FALSE, kept |-> Stats_new]
    /\ channel2 = [resource |-> Stats_new, events |-> <<>>,
                   drained |-> <<>>, drain_pre |-> Stats_new]
    /\ builder = NoArg

\* an init_resource that replaces the R it finds
init_resource_replaces(present, stats_) == Stats_new

\* App::init_resource::<R>: R::default() only when the World holds no R
init_resource(present, stats_) == IF present THEN stats_ ELSE Stats_new

\* App::insert_resource(R { stats })
insert_resource(stats_) ==
    /\ ~panicked
    /\ stage = "Build"
    /\ resource' = stats_
    /\ app' = [app EXCEPT !.resource = TRUE, !.last = "insert_resource",
                          !.had = app.resource, !.kept = resource]
    /\ UNCHANGED <<events, stage, drained, drain_pre>>
    /\ UNCHANGED <<overflow_checks, panicked, direct, commands, channel2,
                   builder>>

\* register_stat_resource::<R>: add_event, which keeps a channel that is
\* there; init_resource; add_systems, which adds one more handler system
register_stat_resource ==
    /\ ~panicked
    /\ stage = "Build"
    /\ app.handlers < MaxRegistrations
    /\ resource' = init_resource(app.resource, resource)
    /\ app' = [resource |-> TRUE, handlers |-> app.handlers + 1,
               last |-> "register_stat_resource", had |-> app.resource,
               kept |-> resource]
    /\ UNCHANGED <<events, stage, drained, drain_pre>>
    /\ UNCHANGED <<overflow_checks, panicked, direct, commands, channel2,
                   builder>>

\* App::run: the build is over and the first update begins
App_run ==
    /\ ~panicked
    /\ stage = "Build"
    /\ stage' = "PreUpdate"
    /\ UNCHANGED <<resource, events, drained, drain_pre>>
    /\ UNCHANGED <<overflow_checks, panicked, direct, commands, host>>

\* the systems send ModifyStat<R>, so R is registered before the App runs
NextApp ==
    \/ \E stats_ \in InsertedStats : insert_resource(stats_)
    \/ register_stat_resource
    \/ app.handlers > 0 /\ App_run
    \/ \E event \in AppEvents : stage # "Build" /\ EventWriter_send(event)
    \/ PostUpdate
    \/ First

SpecApp == InitBuild /\ [][NextApp]_vars

---------------------------------------------------------------------------
(* Two registered resources R and R2, each with its channel and handler *)

\* the events the systems send to either channel: an add, a set, and a sub
\* that panics on a default slot
ChannelEvents ==
    {ModifyStat_add(stat_id, d) : stat_id \in FrontIds, d \in AddInputs}
        \cup {ModifyStat_set(stat_id, d) : stat_id \in FrontIds, d \in SetInputs}
        \cup {ModifyStat_sub(stat_id, d) : stat_id \in FrontIds, d \in SubInputs}

\* EventWriter<ModifyStat<R2>>::send by a system of the running part
EventWriter_send2(event) ==
    /\ ~panicked
    /\ Len(channel2.events) < MaxEvents
    /\ channel2' = [channel2 EXCEPT !.events = Append(@, Sent(event, stage))]
    /\ UNCHANGED <<overflow_checks, panicked, direct, commands, channel, app,
                   builder>>

\* the systems that send run before PostUpdate, in any order
NextChannels ==
    \/ \E event \in ChannelEvents :
          stage = "PreUpdate" /\ EventWriter_send(event)
    \/ \E event \in ChannelEvents :
          stage = "PreUpdate" /\ EventWriter_send2(event)
    \/ PostUpdate
    \/ First

SpecChannels == Init /\ [][NextChannels]_vars

---------------------------------------------------------------------------
(* One verb through the direct call and through both front-ends *)

\* the values a slot holds when the verb arrives: primitives and a box that
\* was stored boxed
EquivSlots ==
    {StatData_new("u8", 0), StatData_new("u8", 128), StatData_new("u8", 255),
     StatData_new("i8", 64), StatData_new("Duration", 0),
     StatData_new("Duration", 1), Box_new(StatData_new("u8", 128))}

EquivStores ==
    {Stats_new} \cup {identifier("EnemiesKilled") :> d : d \in EquivSlots}

\* the values the verb carries: primitives and a Box<dyn StatData>
EquivInputs ==
    {Primitive("u8", 128), Primitive("i8", 64), Primitive("Duration", 1),
     Boxed(StatData_new("u8", 128))}

EquivData == {Box_dyn(d) : d \in EquivInputs}

EquivMods ==
    {ModificationType_add(d) : d \in EquivInputs}
        \cup {ModificationType_sub(d) : d \in EquivInputs}
        \cup {ModificationType_set(d) : d \in EquivInputs}
        \cup {ModificationType_remove, ModificationType_reset}

\* the same Stats in the store that is called directly, in the component
\* of every entity and in R
InitEquiv ==
    /\ stats \in EquivStores
    /\ overflow_checks \in BOOLEAN
    /\ panicked = FALSE
    /\ call = Call("new", NoArg, NoArg)
    /\ ret = None
    /\ prev = stats
    /\ log = <<>>
    /\ world = [e \in Entities |-> WithStats(stats)]
    /\ queue = <<>>
    /\ phase = "idle"
    /\ batch = <<>>
    /\ batch_world = world
    /\ resource = stats
    /\ events = <<>>
    /\ stage = "PreUpdate"
    /\ drained = <<>>
    /\ drain_pre = Stats_new
    /\ InitHost

\* one direct call, one command on e1 and its flush, one event and its update
NextEquiv ==
    \/ /\ call.op = "new"
       /\ \E stat_id \in FrontIds, d \in EquivData : add_to_stat(stat_id, d)
       /\ UNCHANGED log
    \/ /\ call.op = "new"
       /\ \E stat_id \in FrontIds, d \in EquivData : sub_from_stat(stat_id, d)
       /\ UNCHANGED log
    \/ /\ call.op = "new"
       /\ \E stat_id \in FrontIds, d \in EquivData : set_stat(stat_id, d)
       /\ UNCHANGED log
    \/ /\ call.op = "new"
       /\ \E stat_id \in FrontIds : remove_stat(stat_id)
       /\ UNCHANGED log
    \/ /\ call.op = "new"
       /\ \E stat_id \in FrontIds : reset_stat(stat_id)
       /\ UNCHANGED log
    \/ /\ queue = <<>>
       /\ phase = "idle"
       /\ \E stat_id \in FrontIds, m \in EquivMods : modify_stat("e1", stat_id, m)
    \/ /\ queue # <<>>
       /\ flush
    \/ apply_command
    \/ /\ events = <<>>
       /\ drained = <<>>
       /\ stage = "PreUpdate"
       /\ \E stat_id \in FrontIds, m \in EquivMods :
             EventWriter_send(ModifyStat_new(stat_id, m))
    \/ /\ events # <<>>
       /\ PostUpdate

SpecEquiv == InitEquiv /\ [][NextEquiv]_vars

---------------------------------------------------------------------------
(* The round trip set, add, sub on one key *)

\* the integers the round trip starts from and moves by: both ends of each
\* kind's range, their neighbours and the middle
TripValues(kind) ==
    IF kind \in UnsignedKinds
    THEN {0, 1, 127, 128, 254, 255}
    ELSE {-128, -127, -1, 0, 1, 64, 127}

TripData == UNION {{StatData_new(k, v) : v \in TripValues(k)} : k \in IntKinds}

\* set(id, a), then add(id, b) of a's kind, then sub(id, b)
NextTrip ==
    \/ /\ log = <<>>
       /\ \E stat_id \in LogIds, a \in TripData : set_stat(stat_id, a) /\ Record
    \/ /\ Len(log) = 1
       /\ \E b \in TripData :
             /\ b.kind = log[1].arg.kind
             /\ add_to_stat(log[1].stat_id, b) /\ Record
    \/ /\ Len(log) = 2
       /\ sub_from_stat(log[2].stat_id, log[2].arg) /\ Record

SpecTrip == Init /\ [][NextTrip]_vars

---------------------------------------------------------------------------
(* Shorthands of the properties *)

\* the key of the most recent call
Key == identifier(call.stat_id)

\* the most recent call was `op` on a slot that held a value
OnPresent(ops) == call.op \in ops /\ Key \in DOMAIN prev

\* the most recent call was `op` on a key without a slot
OnAbsent(ops) == call.op \in ops /\ Key \notin DOMAIN prev

\* the slot of the key before the call, or the zero that or_insert binds
Base == IF Key \in DOMAIN prev THEN prev[Key].val ELSE 0

\* the most recent call was add or sub of a value whose kind the slot has,
\* or binds because the key had no slot
Matching == /\ call.op \in {"add", "sub"}
            /\ (Key \in DOMAIN prev => prev[Key].kind = call.arg.kind)

\* n clamped to the range of an integer kind
Clamp(kind, n) ==
    IF n > KindMax(kind) THEN KindMax(kind)
    ELSE IF n < KindMin(kind) THEN KindMin(kind) ELSE n

---------------------------------------------------------------------------
(* Properties *)

\* C1: add or sub of a value whose kind differs from the kind the slot
\* holds leaves the whole store as it was: the typed read-back of the
\* slot's kind still gives the old value and that of the operand's kind
\* gives None.
C1_KindLock ==
    (OnPresent({"add", "sub"}) /\ prev[Key].kind # call.arg.kind) =>
        /\ stats = prev
        /\ ~panicked
        /\ get_stat_downcast(call.stat_id, prev[Key].kind) = Some(prev[Key].val)
        /\ get_stat_downcast(call.stat_id, call.arg.kind) = None

C1_Witness ==
    /\ OnPresent({"add", "sub"})
    /\ prev[Key].kind = "u8" /\ prev[Key].val = 128
    /\ call.arg = StatData_new("f32", 1)

\* the index in the log of the last remove, 0 when there is none
LastRemove ==
    LET R == {i \in 1..Len(log) : log[i].op = "remove"}
    IN  IF R = {} THEN 0 ELSE CHOOSE i \in R : \A j \in R : j <= i

\* the indices of the calls since the last remove that carry a value
Carrying(ops) == {i \in (LastRemove + 1)..Len(log) : log[i].op \in ops}

\* the first insertion since the last remove
FirstInsertion ==
    CHOOSE i \in Carrying({"add", "sub", "set"}) :
        \A j \in Carrying({"add", "sub", "set"}) : i <= j

\* the later of the first insertion and the last set since the last remove
LastBinding ==
    LET B == {FirstInsertion} \cup Carrying({"set"})
    IN  CHOOSE i \in B : \A j \in B : j <= i

\* C2 as stated: the kind of a present key is the kind of the first
\* insertion into it since its last remove.
C2_KindOfFirstInsertion ==
    \A k \in DOMAIN stats :
        /\ Carrying({"add", "sub", "set"}) # {}
        /\ stats[k].kind = log[FirstInsertion].arg.kind

\* C2 amended: the kind of a present key is the kind of the first
\* insertion into it since its last remove or of the last set since then,
\* whichever came later; add, sub and reset never change it.
C2_KindOfLastBinding ==
    \A k \in DOMAIN stats :
        /\ Carrying({"add", "sub", "set"}) # {}
        /\ stats[k].kind = log[LastBinding].arg.kind

C2_Witness ==
    /\ Len(log) = 3
    /\ log[1].op = "set" /\ log[2].op = "set" /\ log[3].op \in {"add", "sub"}
    /\ log[1].arg.kind # log[2].arg.kind
    /\ log[3].arg.kind = log[1].arg.kind
    /\ stats[Key].kind = log[2].arg.kind

\* C3 as stated: add and sub of an integer on a slot of the same kind
\* store the sum or difference clamped to the kind's MIN and MAX, and do
\* not panic.
C3_IntegersSaturate ==
    (Matching /\ call.arg.kind \in IntKinds) =>
        /\ ~panicked
        /\ stats[Key] =
              StatData_new(call.arg.kind,
                  Clamp(call.arg.kind,
                      IF call.op = "add" THEN Base + call.arg.val
                      ELSE Base - call.arg.val))

\* C4 as stated: sub of a Duration larger than the stored one (zero when
\* the key had no slot) does not panic and leaves the slot at zero or at
\* its previous value.
C4_DurationSubNeverPanics ==
    (Matching /\ call.op = "sub" /\ call.arg.kind = "Duration"
        /\ call.arg.val > Base) =>
        /\ ~panicked
        /\ \/ stats[Key].val = 0
           \/ Key \in DOMAIN prev /\ stats[Key] = prev[Key]

\* the sum and the difference the catalog's arithmetic is documented to
\* give: clamped for the integer kinds, plain for f32 and Duration
KindSum(kind, a, b) == IF kind \in IntKinds THEN Clamp(kind, a + b) ELSE a + b

KindDifference(kind, a, b) ==
    CASE kind \in IntKinds -> Clamp(kind, a - b)
      [] kind = "Duration" -> IF b > a THEN 0 ELSE a - b
      [] OTHER -> a - b

\* C5 as stated: add on a key without a slot leaves the typed read-back at
\* Some(v); add on a slot of the same kind leaves stored + v under the
\* kind's arithmetic.
C5_AddStoresSum ==
    (Matching /\ call.op = "add") =>
        /\ ~panicked
        /\ Key \in DOMAIN stats
        /\ Key \notin DOMAIN prev =>
              get_stat_downcast(call.stat_id, call.arg.kind) = Some(call.arg.val)
        /\ Key \in DOMAIN prev =>
              stats[Key] = StatData_new(call.arg.kind,
                               KindSum(call.arg.kind, prev[Key].val, call.arg.val))

\* C6 as stated: sub on a key without a slot binds the key to v's kind
\* with zero minus v (0 for the unsigned kinds, -v for the signed ones); sub
\* on a slot of the same kind leaves stored - v.
C6_SubStoresDifference ==
    (Matching /\ call.op = "sub") =>
        /\ ~panicked
        /\ Key \in DOMAIN stats
        /\ Key \notin DOMAIN prev =>
              stats[Key] = StatData_new(call.arg.kind,
                               IF call.arg.kind \in {"u8", "Duration"} THEN 0
                               ELSE -call.arg.val)
        /\ Key \in DOMAIN prev =>
              stats[Key] = StatData_new(call.arg.kind,
                               KindDifference(call.arg.kind, prev[Key].val, call.arg.val))

\* C7: set stores its value whatever the key held: the typed read-back of
\* the value's kind gives Some(value) and that of every other kind None.
C7_SetStores ==
    call.op = "set" =>
        /\ ~panicked
        /\ get_stat_downcast(call.stat_id, call.arg.kind) = Some(call.arg.val)
        /\ \A K1 \in Kinds \ {call.arg.kind} :
              get_stat_downcast(call.stat_id, K1) = None

C7_Witness ==
    /\ OnPresent({"set"})
    /\ prev[Key].kind = "Duration"
    /\ call.arg = StatData_new("i8", 64)
    /\ stats[Key] = call.arg

\* the log ends with add(id, a of K1); remove(id); add(id, b of K2), K2 # K1
Rebound ==
    /\ Len(log) >= 3
    /\ LET n == Len(log)
       IN  /\ log[n - 2].op = "add" /\ log[n - 1].op = "remove" /\ log[n].op = "add"
           /\ log[n - 2].arg.kind # log[n].arg.kind

\* C8: remove leaves the key without a slot (every typed read-back is
\* None) and the store as it was when the key had none; an add of another
\* kind after add and remove reads back as Some(b).
C8_RemoveUnbinds ==
    /\ call.op = "remove" =>
          /\ Key \notin DOMAIN stats
          /\ \A K \in Kinds : get_stat_downcast(call.stat_id, K) = None
          /\ Key \notin DOMAIN prev => stats = prev
    /\ Rebound =>
          /\ get_stat_downcast(call.stat_id, call.arg.kind) = Some(call.arg.val)
          /\ get_stat_downcast(call.stat_id, log[Len(log) - 2].arg.kind) = None

C8_Witness ==
    /\ Rebound
    /\ log[1].arg = StatData_new("u8", 128)
    /\ stats[Key] = StatData_new("f32", 1)

\* C9: reset on a key without a slot leaves the store as it was; on a slot
\* it leaves the zero of the kind the slot held, and the same keys.
C9_ResetNeverCreates ==
    call.op = "reset" =>
        /\ ~panicked
        /\ IF Key \in DOMAIN prev
           THEN /\ DOMAIN stats = DOMAIN prev
                /\ stats[Key] = StatData_new(prev[Key].kind, 0)
           ELSE stats = prev

C9_Witness ==
    /\ OnAbsent({"reset"})
    /\ DOMAIN prev # {}
    /\ Key \notin DOMAIN stats

\* C10: the typed read-back returns Some(stored value) exactly when the
\* key has a slot of the asked kind, None otherwise, and leaves the store
\* as it was.
C10_TypedReadBack ==
    call.op = "get" =>
        /\ stats = prev
        /\ ret = IF Key \in DOMAIN stats /\ stats[Key].kind = call.arg
                 THEN Some(stats[Key].val)
                 ELSE None

C10_Witness ==
    /\ call.op = "get"
    /\ Key \in DOMAIN stats
    /\ stats[Key].kind = "u8" /\ call.arg = "f32"
    /\ ret = None

---------------------------------------------------------------------------
(* The entity command front-end: C11 to C13 *)

\* the commands of a flush that have run, and those of them queued on an entity
Consumed == SubSeq(batch, 1, Len(batch) - Len(queue))

ConsumedOn(entity) == SelectSeq(Consumed, LAMBDA c : c.entity = entity)

\* the verbs of a sequence of commands folded from the left over a Stats
RECURSIVE FoldVerbs(_, _)
FoldVerbs(map, cmds) ==
    IF cmds = <<>> THEN map
    ELSE FoldVerbs(match_modification_type(map, Head(cmds).stat_id,
                                           Head(cmds).mod).stats,
                   Tail(cmds))

Reversed(cmds) == [i \in 1..Len(cmds) |-> cmds[Len(cmds) + 1 - i]]

InFlush == phase \in {"flushing", "flushed"}

\* C11: a builder verb or modify_stat only appends one command to the host's
\* queue, and outside a flush the Stats of every entity that keeps its
\* component stay as they are
C11_Deferred ==
    [][/\ Len(queue') > Len(queue) =>
            /\ world' = world
            /\ Len(queue') = Len(queue) + 1
            /\ SubSeq(queue', 1, Len(queue)) = queue
       /\ phase # "flushing" =>
            \A e \in Entities :
                world'[e].state = "stats" => world'[e].stats = world[e].stats]_vars

\* a command that would bind the stat waits in the queue, and its target
\* still has the Stats it was spawned with
C11_Witness ==
    /\ phase = "idle"
    /\ queue # <<>>
    /\ Head(queue).mod.verb \in {"Add", "Set"}
    /\ world[Head(queue).entity] = WithStats(Stats_new)

\* C12: during and after a flush, what is left in the queue is the rest of
\* the batch, the Stats of every entity with the component are the
\* left-to-right fold of the commands that ran on it over its Stats before
\* the flush, and a flush that is over leaves no command behind to run again
C12_FlushInOrderOnce ==
    InFlush =>
        /\ Len(queue) <= Len(batch)
        /\ queue = SubSeq(batch, Len(batch) - Len(queue) + 1, Len(batch))
        /\ phase = "flushed" => queue = <<>>
        /\ \A e \in Entities :
              batch_world[e].state = "stats" =>
                  world[e] = WithStats(FoldVerbs(batch_world[e].stats,
                                                 ConsumedOn(e)))

\* a flush ran two commands on one entity whose order matters
C12_Witness ==
    /\ phase = "flushed"
    /\ ~panicked
    /\ Len(batch) = 2
    /\ \E e \in Entities :
          /\ batch_world[e].state = "stats"
          /\ ConsumedOn(e) = batch
          /\ FoldVerbs(batch_world[e].stats, batch)
                # FoldVerbs(batch_world[e].stats, Reversed(batch))

\* C13: a command that the flush runs on an entity that is gone, or that has
\* no component, panics nothing and leaves the whole World as it was
C13_DroppedSilently ==
    [][(/\ ~panicked
        /\ phase = "flushing"
        /\ Len(queue') < Len(queue)
        /\ world[Head(queue).entity].state # "stats") =>
            (world' = world /\ ~panicked')]_vars

\* a flush ran a command on a despawned entity and one on an entity without
\* the component
C13_Witness ==
    /\ phase = "flushed"
    /\ ~panicked
    /\ Len(batch) = 2
    /\ batch_world[batch[1].entity].state = "gone"
    /\ batch_world[batch[2].entity].state = "bare"
    /\ batch[1].mod.verb \in {"Add", "Set"}
    /\ batch[2].mod.verb \in {"Add", "Set"}
    /\ world = batch_world

---------------------------------------------------------------------------
(* The event front-end: C14 and C15 *)

\* the verbs of a sequence of events folded from the left over a Stats
RECURSIVE FoldEvents(_, _)
FoldEvents(map, evs) ==
    IF evs = <<>> THEN map
    ELSE FoldEvents(match_event(map, Head(evs).event).stats, Tail(evs))

\* the typed read-back of a Stats
ReadBack(map, stat_id, T) ==
    IF identifier(stat_id) \in DOMAIN map
    THEN downcast_ref(map[identifier(stat_id)], T)
    ELSE None

\* C14: once the handler has run in an update, R is the left-to-right fold
\* of the events it read over R as it was, none of the events it read is
\* left to be read again, and an update without unread events leaves R as
\* it was
C14_DrainInOrderOnce ==
    stage = "PostUpdate" =>
        /\ resource = FoldEvents(drain_pre, drained)
        /\ \A i \in 1..Len(events) : events[i].sent = "PostUpdate"
        /\ drained = <<>> => resource = drain_pre

\* the handler read two events of one update whose order matters
C14_Witness ==
    /\ stage = "PostUpdate"
    /\ Len(drained) = 2
    /\ \A i \in 1..2 : drained[i].sent = "PreUpdate"
    /\ FoldEvents(drain_pre, drained) # FoldEvents(drain_pre, Reversed(drained))

\* C15: when the systems ordered after ApplyModifications run, no event
\* sent before PostUpdate in this update is still unread, and they observe
\* the last event read: the value of a set, the absence after a remove, the
\* zero after a reset, the value of an add on an absent key
C15_SameTickVisibility ==
    stage = "PostUpdate" =>
        /\ \A i \in 1..Len(events) : events[i].sent # "PreUpdate"
        /\ drained # <<>> =>
              LET last == drained[Len(drained)].event
                  m == last.modification_type
                  before == FoldEvents(drain_pre,
                                       SubSeq(drained, 1, Len(drained) - 1))
              IN  /\ m.verb = "Set" =>
                        ReadBack(resource, last.stat_id, m.data.kind)
                            = Some(m.data.val)
                  /\ m.verb = "Remove" =>
                        identifier(last.stat_id) \notin DOMAIN resource
                  /\ (m.verb = "Reset"
                        /\ identifier(last.stat_id) \in DOMAIN resource) =>
                        resource[identifier(last.stat_id)].val = 0
                  /\ (m.verb = "Add"
                        /\ identifier(last.stat_id) \notin DOMAIN before) =>
                        ReadBack(resource, last.stat_id, m.data.kind)
                            = Some(m.data.val)

\* one add was sent before PostUpdate on a default R, and the systems after
\* ApplyModifications read the value back
C15_Witness ==
    /\ stage = "PostUpdate"
    /\ drain_pre = Stats_new
    /\ Len(drained) = 1
    /\ drained[1].sent = "PreUpdate"
    /\ drained[1].event.modification_type.verb = "Add"
    /\ ReadBack(resource, "EnemiesKilled", "u8") = Some(128)

---------------------------------------------------------------------------
(* The front-ends against the direct call: C16 and C17 *)

\* the three ways a verb reaches a Stats
Paths == {"direct", "command", "event"}

\* the verb of a direct call, as the verb a front-end would carry
VerbOfCall ==
    [stat_id |-> call.stat_id,
     mod |-> CASE call.op = "add" -> [verb |-> "Add", data |-> call.arg]
               [] call.op = "sub" -> [verb |-> "Sub", data |-> call.arg]
               [] call.op = "set" -> [verb |-> "Set", data |-> call.arg]
               [] call.op = "remove" -> ModificationType_remove
               [] call.op = "reset" -> ModificationType_reset]

\* the path whose verb panicked
Panicked(path) ==
    /\ panicked
    /\ CASE path = "command" -> phase = "flushing" /\ Len(queue) < Len(batch)
         [] path = "event" -> stage = "PreUpdate" /\ drained # <<>>
         [] path = "direct" ->
               /\ call.op # "new"
               /\ ~(phase = "flushing" /\ Len(queue) < Len(batch))
               /\ ~(stage = "PreUpdate" /\ drained # <<>>)

\* the path has applied its verb and returned
Completed(path) ==
    CASE path = "command" -> phase = "flushed" /\ batch # <<>>
      [] path = "event" -> stage = "PostUpdate" /\ drained # <<>>
      [] path = "direct" -> call.op # "new" /\ ~Panicked("direct")

Ran(path) == Completed(path) \/ Panicked(path)

\* the verb a path that ran was given, and the Stats it acts on
VerbOf(path) ==
    CASE path = "command" -> [stat_id |-> batch[1].stat_id, mod |-> batch[1].mod]
      [] path = "event" -> [stat_id |-> drained[1].event.stat_id,
                            mod |-> drained[1].event.modification_type]
      [] path = "direct" -> VerbOfCall

StoreOf(path) ==
    CASE path = "command" -> world["e1"].stats
      [] path = "event" -> resource
      [] path = "direct" -> stats

\* C16: a verb that went from the same Stats through the command flush,
\* through the event handler and through the direct call of the matching
\* primitive leaves the same Stats on every path, and panics on every path
\* or on none
C16_FrontEndsRefineDirect ==
    \A p \in Paths, q \in Paths :
        (Ran(p) /\ Ran(q) /\ VerbOf(p) = VerbOf(q)) =>
            /\ ~(Panicked(p) /\ Completed(q))
            /\ (Completed(p) /\ Completed(q)) => StoreOf(p) = StoreOf(q)

\* the three paths have applied the same add to a slot of its kind
C16_Witness ==
    /\ \A p \in Paths : Completed(p) /\ VerbOf(p) = VerbOf("direct")
    /\ call.op = "add"
    /\ identifier(call.stat_id) \in DOMAIN prev
    /\ prev[identifier(call.stat_id)].kind = call.arg.kind
    /\ stats # prev
    /\ StoreOf("command") = stats
    /\ StoreOf("event") = stats


\* a verb that carries a box, and the verb with the box taken away
Wrapped(verb) ==
    verb.mod.verb \in {"Add", "Sub", "Set"} /\ verb.mod.data.kind = "Box"

Unwrapped(verb) ==
    IF Wrapped(verb)
    THEN [verb EXCEPT !.mod.data = verb.mod.data.inner]
    ELSE verb

\* C17 as stated: a verb built from an already boxed value leaves, on a
\* front-end, the typed read-back that the direct call with the inner value
\* leaves
C17_BoxTransparent ==
    \A p \in {"command", "event"} :
        (/\ Completed(p)
         /\ Completed("direct")
         /\ Wrapped(VerbOf(p))
         /\ Unwrapped(VerbOf(p)) = VerbOf("direct")) =>
            \A T \in Kinds :
                ReadBack(StoreOf(p), VerbOf(p).stat_id, T)
                    = ReadBack(stats, call.stat_id, T)

---------------------------------------------------------------------------
(* The arithmetic of the catalog: C18 to C20 *)

\* C18: on a slot of an unsigned kind that holds the kind's maximum, add of
\* a positive value of the kind leaves the maximum; on a slot that holds 0,
\* sub of a positive value of the kind leaves 0; neither panics
C18_UnsignedSaturates ==
    (/\ OnPresent({"add", "sub"})
     /\ prev[Key].kind \in UnsignedKinds
     /\ call.arg.kind = prev[Key].kind
     /\ call.arg.val > 0) =>
        /\ (call.op = "add" /\ prev[Key].val = KindMax(prev[Key].kind)) =>
              /\ ~panicked
              /\ get_stat_downcast(call.stat_id, prev[Key].kind)
                    = Some(KindMax(prev[Key].kind))
        /\ (call.op = "sub" /\ prev[Key].val = 0) =>
              /\ ~panicked
              /\ get_stat_downcast(call.stat_id, prev[Key].kind) = Some(0)

\* 255u8 was added to a slot that held 255u8
C18_Witness ==
    /\ OnPresent({"add"})
    /\ prev[Key] = StatData_new("u8", 255)
    /\ call.arg = StatData_new("u8", 255)
    /\ get_stat_downcast(call.stat_id, "u8") = Some(255)

\* C19: after set(id, a), add(id, b), sub(id, b) with a and b of one
\* integer kind and a + b within the kind's range, the typed read-back is
\* Some(a) and nothing panicked
C19_AddSubRoundTrip ==
    (/\ Len(log) = 3
     /\ log[1].op = "set" /\ log[2].op = "add" /\ log[3].op = "sub"
     /\ log[1].arg.kind \in IntKinds
     /\ log[2].arg.kind = log[1].arg.kind
     /\ log[3].arg = log[2].arg
     /\ log[1].arg.val + log[2].arg.val >= KindMin(log[1].arg.kind)
     /\ log[1].arg.val + log[2].arg.val <= KindMax(log[1].arg.kind)) =>
        /\ ~panicked
        /\ get_stat_downcast(log[1].stat_id, log[1].arg.kind)
              = Some(log[1].arg.val)

\* the round trip set 127u8, add 128u8, sub 128u8 has run through the maximum
C19_Witness ==
    /\ Len(log) = 3
    /\ log[1].arg = StatData_new("u8", 127)
    /\ log[2].arg = StatData_new("u8", 128)
    /\ log[3].op = "sub"
    /\ get_stat_downcast(log[1].stat_id, "u8") = Some(127)

\* C20: add of the zero of a kind to a slot that holds the kind leaves the
\* typed read-back as it was, and does not panic
C20_AddZeroIdentity ==
    (/\ OnPresent({"add"})
     /\ prev[Key].kind = call.arg.kind
     /\ call.arg = StatData_default(call.arg)) =>
        /\ ~panicked
        /\ get_stat_downcast(call.stat_id, call.arg.kind) = Some(prev[Key].val)

\* the zero of i8 was added to a slot that held a nonzero i8
C20_Witness ==
    /\ OnPresent({"add"})
    /\ prev[Key] = StatData_new("i8", -128)
    /\ call.arg = StatData_new("i8", 0)
    /\ get_stat_downcast(call.stat_id, "i8") = Some(-128)

---------------------------------------------------------------------------
(* Relations between calls on the store: C21 and C26 *)

\* C21: a reset that follows a reset of the same key leaves the store as
\* the first reset left it and does not panic, and any reset of a key
\* without a slot leaves the store as it was
C21_ResetIdempotent ==
    /\ (/\ Len(log) >= 2
        /\ log[Len(log)].op = "reset"
        /\ log[Len(log) - 1].op = "reset"
        /\ log[Len(log)].stat_id = log[Len(log) - 1].stat_id) =>
            (stats = prev /\ ~panicked)
    /\ (Len(log) >= 1 /\ OnAbsent({"reset"})) => (stats = prev /\ ~panicked)

\* a slot that held -128i8 was reset twice and holds the zero of i8
C21_Witness ==
    /\ Len(log) = 3
    /\ log[1] = Call("set", "EnemiesKilled", StatData_new("i8", -128))
    /\ log[2].op = "reset"
    /\ log[3].op = "reset"
    /\ stats[Key] = StatData_new("i8", 0)
    /\ stats = prev

\* C26: after add, sub, set, remove or reset on a key, every other key is
\* bound exactly when it was bound before, to the value it held
C26_OtherKeysUntouched ==
    call.op \in {"add", "sub", "set", "remove", "reset"} =>
        \A k \in (DOMAIN prev \cup DOMAIN stats) \ {Key} :
            /\ k \in DOMAIN prev
            /\ k \in DOMAIN stats
            /\ stats[k] = prev[k]

\* a set replaced the slot of one key while another key held a value
C26_Witness ==
    /\ call.op = "set"
    /\ call.stat_id = "EnemiesKilled"
    /\ identifier("EnemiesKilled") \in DOMAIN prev
    /\ stats[identifier("EnemiesKilled")] # prev[identifier("EnemiesKilled")]
    /\ identifier("PlayTime") \in DOMAIN prev
    /\ stats[identifier("PlayTime")] = StatData_new("Duration", 1)

---------------------------------------------------------------------------
(* Registration: C22 and C27 *)

\* C22: while the App is built, a registration leaves an R that is there
\* with the Stats it held, and makes a default R only when there was none
C22_RegisterKeepsResource ==
    (stage = "Build" /\ app.last = "register_stat_resource") =>
        /\ app.resource
        /\ app.had => resource = app.kept
        /\ ~app.had => resource = Stats_new

\* R was inserted with a stat and then registered
C22_Witness ==
    /\ stage = "Build"
    /\ app.last = "register_stat_resource"
    /\ app.had
    /\ app.handlers = 1
    /\ app.kept # Stats_new
    /\ ReadBack(resource, "EnemiesKilled", "u8") = Some(128)

\* C23: the handler of each resource applies the events of its own channel
\* only: once the handlers ran, R is the fold of the events read from the
\* channel of R and R2 the fold of those read from the channel of R2, and a
\* step taken while a channel holds no unread event leaves its resource as
\* it was, whatever the other channel holds
C23_ChannelsIndependent ==
    /\ [](stage = "PostUpdate" =>
            /\ resource = FoldEvents(drain_pre, drained)
            /\ channel2.resource
                  = FoldEvents(channel2.drain_pre, channel2.drained))
    /\ [][/\ channel2.events = <<>> => channel2.resource' = channel2.resource
          /\ events = <<>> => resource' = resource]_vars

\* R2 holds a stat from an earlier update; in this update only the channel
\* of R held events, and only R changed
C23_Witness ==
    /\ stage = "PostUpdate"
    /\ Len(drained) = 2
    /\ resource # drain_pre
    /\ channel2.drained = <<>>
    /\ channel2.resource # Stats_new
    /\ channel2.resource = channel2.drain_pre
    /\ channel2.resource # resource

\* C24: entity(e) makes e the target that id() returns; a verb appends one
\* command on the target the builder has at that moment, and retargeting
\* changes neither the queue nor the World, so the commands queued before
\* keep their entity; a command applied by the flush changes the component
\* of its own entity only, and after the flush every entity shows the fold
\* of the commands queued while it was the target
C24_BuilderRetarget ==
    /\ [](/\ call.op \in {"entity", "entity_stats"} => builder = call.arg
          /\ call.op = "id" => ret = Some(builder)
          /\ phase = "flushed" =>
                \A e \in Entities :
                    world[e].stats
                        = FoldVerbs(batch_world[e].stats, ConsumedOn(e)))
    /\ [][/\ Len(queue') > Len(queue) =>
                /\ queue' = Append(queue, queue'[Len(queue')])
                /\ queue'[Len(queue')].entity = builder
                /\ builder' = builder
          /\ builder' # builder => (queue' = queue /\ world' = world)
          /\ Len(queue') < Len(queue) =>
                \A e \in Entities \ {Head(queue).entity} :
                    world'[e] = world[e]]_vars

\* an add was queued on e1, the builder was retargeted to e2, a set was
\* queued, and the flush left the add on e1 only and the set on e2 only
C24_Witness ==
    /\ call = Call("entity", NoArg, "e2")
    /\ builder = "e2"
    /\ phase = "flushed"
    /\ batch = <<Command("e1", "EnemiesKilled",
                         ModificationType_add(Primitive("u8", 128))),
                 Command("e2", "EnemiesKilled",
                         ModificationType_set(Primitive("Duration", 1)))>>
    /\ \A e \in Entities : batch_world[e] = WithStats(Stats_new)
    /\ ReadBack(world["e1"].stats, "EnemiesKilled", "u8") = Some(128)
    /\ ReadBack(world["e2"].stats, "EnemiesKilled", "Duration") = Some(1)

\* the names the recorded adds carry, and the sum of the amounts they carry
\* under one name
AddedNames == UNION {DOMAIN log[i].arg.val : i \in 1..Len(log)}

RECURSIVE AddedUnder(_, _)
AddedUnder(name, calls) ==
    IF calls = <<>> THEN 0
    ELSE (IF name \in DOMAIN Head(calls).arg.val
          THEN Head(calls).arg.val[name] ELSE 0)
             + AddedUnder(name, Tail(calls))

\* every recorded add went through a flush, or a flush panicked
CropsFlushed ==
    /\ log # <<>>
    /\ queue = <<>>
    /\ phase = "flushed" \/ panicked

\* C25 as stated: after any sequence of add commands flushed on one key, the
\* stored CropsGrownStat holds the names added and, under each, the sum of
\* the amounts added under it
C25_MergeSums ==
    CropsFlushed =>
        /\ ~panicked
        /\ ReadBack(world["e1"].stats, "EnemiesKilled", "CropsGrownStat")
              = Some([name \in AddedNames |-> AddedUnder(name, log)])

\* C25 where no sum leaves the range of the amounts
C25_MergeSumsInRange ==
    (CropsFlushed /\ \A name \in AddedNames : AddedUnder(name, log) <= AmountMax)
        =>
        /\ ~panicked
        /\ ReadBack(world["e1"].stats, "EnemiesKilled", "CropsGrownStat")
              = Some([name \in AddedNames |-> AddedUnder(name, log)])

\* Potato 5 was flushed, then Potato 5 and Dandelion 500 in one flush
C25_Witness ==
    /\ phase = "flushed"
    /\ Len(log) = 3
    /\ Len(batch) = 2
    /\ \A i \in 1..2 : DOMAIN log[i].arg.val = {"Potato"}
    /\ DOMAIN log[3].arg.val = {"Dandelion"}
    /\ ReadBack(world["e1"].stats, "EnemiesKilled", "CropsGrownStat")
          = Some(("Dandelion" :> 500) @@ ("Potato" :> 10))

\* C27 as stated: however many times R was registered, the handler applies
\* each event it reads once: after it ran, R is the fold of the events read
C27_RegisterTwiceAppliesOnce ==
    (stage = "PostUpdate" /\ app.handlers >= 1) =>
        resource = FoldEvents(drain_pre, drained)

====
